---- MODULE Spec2Model ----
(***************************************************************************)
(* A model of the KolHalashon API client (src/kolhalashon/api.py).         *)
(*                                                                         *)
(* One KolHalashonAPI facade lives in one process at a time.  The facade   *)
(* owns a SessionManager (src/kolhalashon/utils/session_manager.py is not  *)
(* part of the available sources; its load_session, is_token_valid,        *)
(* set_tokens, get_download_key and save operations are modelled from      *)
(* section 4.1 of the specification) whose state has the shape of          *)
(* SessionData (src/kolhalashon/models/session.py).  The remote server is  *)
(* the environment: every response (status code, JSON body) is chosen      *)
(* nondeterministically.  Cookies are never read by api.py and are left    *)
(* out of the session record.                                              *)
(*                                                                         *)
(* Every public operation is one action.  The variables call, log and      *)
(* result describe the most recent operation: its arguments, the ordered   *)
(* events it performed (session-store calls, HTTP requests, file writes)   *)
(* and how it ended (a normal return or the exception it raised).          *)
(***************************************************************************)
EXTENDS Integers, Sequences, FiniteSets, TLC

VARIABLES
    phase,        \* "new" (no facade), "ready" (constructed), "failed" (__init__ raised)
    use_session,  \* self.use_session
    username,     \* self.username
    password,     \* self.password
    session,      \* the SessionManager's state: auth_token, site_key, headers
    file,         \* the persisted session file (session_file)
    gen,          \* the generator object returned by search_rav_shiurim
    call,         \* the most recent operation and its arguments
    log,          \* the events of the most recent operation, in order
    result,       \* how the most recent operation ended
    mapIn,        \* a raw search entry handed to format_shiurim
    mapOut        \* the records format_shiurim yielded for mapIn

vars == <<phase, use_session, username, password, session, file, gen,
          call, log, result, mapIn, mapOut>>

(***************************************************************************)
(* Values                                                                  *)
(***************************************************************************)

\* Python's None and JSON's null.
None == "<None>"

\* Python truthiness of an optional string.
Truthy(v) == v # None /\ v # ""

\* HTTP success, the only status the code treats as success.
StatusOK == 200

\* Status codes the server may answer with.
Statuses == {StatusOK, 404, 500}

\* Bound: the largest number of entries in a listing payload.
MaxItems == 2

\* Constructor arguments (None: not given) and environment values.
UserArgs == {None, "user"}
PassArgs == {None}
EnvUsers == {""}
EnvPasss == {"", "envpw"}

\* JSON values the login body may carry under Token and SiteKey.
JsonStrings == {None, "", "tok"}
SiteKeyStrings == {None, "sk"}

FileIds == {7, 99}
RavIds == {5}
Keywords == {"kw"}
UserIds == {-1}
QualityLevels == {"AUDIO", "VIDEO", "HD"}
DownloadKeys == {"dk1", "dk2"}

\* self._headers
FixedHeaders ==
    [origin |-> "https://www2.kolhalashon.com",
     referer |-> "https://www2.kolhalashon.com/"]

(***************************************************************************)
(* Events and outcomes                                                     *)
(***************************************************************************)

\* A response: its status code and, decoded, its JSON body.
Response(status, json) == [status |-> status, json |-> json]

\* One HTTP request issued through session_manager.session, with the
\* response the server gave it.
Request(method, endpoint, args, headers, resp) ==
    [ev |-> "request", method |-> method, endpoint |-> endpoint,
     args |-> args, headers |-> headers, status |-> resp.status,
     json |-> resp.json]

\* A call into the session store.
StoreCall(name) == [ev |-> name]

\* open(file_name, 'wb') and the chunk writes.
WriteFile(name) == [ev |-> "write_file", name |-> name]

IsRequest(e) == e.ev = "request"

\* The requests among the events of a log, in order.
Requests(l) == SelectSeq(l, IsRequest)

\* How an operation ended: kind is "return" or the exception's class.
Outcome(op, kind, status, msg) ==
    [op |-> op, kind |-> kind, status |-> status, msg |-> msg,
     id |-> 0, keyword |-> "", quality |-> "", file_name |-> <<>>, items |-> <<>>]

\* The operation called and its arguments; first tells whether a next()
\* is the one that starts the generator's body.
NoCall == [op |-> "none", keyword |-> "", id |-> 0, quality |-> "", first |-> FALSE]

\* dict.get(key, default)
Get(d, key, default) == IF key \in DOMAIN d THEN d[key] ELSE default

(***************************************************************************)
(* Session store (SessionData; operations modelled from the specification) *)
(***************************************************************************)

\* The authorization header value built from a token.
Bearer(token) == <<"Bearer", token>>

\* The store after SessionManager(session_file): no token, no site key.
\* Its headers are taken to hold the two fixed headers already.
EmptySession ==
    [auth_token |-> None, site_key |-> None, headers |-> FixedHeaders]

\* set_tokens(auth_token, site_key): both fields together, headers recomputed.
SetTokens(s, auth_token, site_key) ==
    [auth_token |-> auth_token,
     site_key |-> site_key,
     headers |-> [h \in DOMAIN s.headers \cup {"authorization"} |->
                    IF h = "authorization" THEN Bearer(auth_token)
                    ELSE s.headers[h]]]

\* is_token_valid(): the token is present and not empty.
IsTokenValid(s) == s.auth_token # None /\ s.auth_token # ""

\* The session file: absent, unparsable, or a persisted SessionData.
NoFile == [state |-> "absent", data |-> EmptySession]
CorruptFile == [state |-> "corrupt", data |-> EmptySession]

\* load_session(): raises SessionNotLoadedException unless the file parses.
LoadSession(s, f) ==
    IF f.state = "ok"
    THEN [raised |-> FALSE, session |-> f.data]
    ELSE [raised |-> TRUE, session |-> s]

(***************************************************************************)
(* Authenticator                                                           *)
(***************************************************************************)

\* The JSON objects a login response may carry.
LoginBodies ==
    {[k \in S |-> IF k = "Token" THEN t ELSE sk] :
        S \in SUBSET {"Token", "SiteKey"}, t \in JsonStrings, sk \in SiteKeyStrings}

\* What the server may answer with bodies drawn from Bodies: a success
\* with any of them, or a failure status.
Responses(Bodies) ==
    {Response(StatusOK, b) : b \in Bodies}
        \cup {Response(st, <<>>) : st \in Statuses \ {StatusOK}}

\* A login answer: any status with any of the bodies.
LoginResponses == {Response(st, b) : st \in Statuses, b \in LoginBodies}

\* The outcome of a login attempt: how it ended, the store afterwards and
\* the events it performed.
LoginOutcome(kind, status, msg, s, l) ==
    [kind |-> kind, status |-> status, msg |-> msg, session |-> s, log |-> l]

\* __login without the check of the credentials.
LoginWithoutCredentialCheck(s, user, pass, resp) ==
    LET req == Request("POST", "Accounts/UserLogin/", <<user, pass>>,
                       FixedHeaders, resp)
        token == Get(resp.json, "Token", None)
    IN  IF resp.status = StatusOK
        THEN IF Truthy(token)
             THEN LoginOutcome("return", 0, "",
                               SetTokens(s, token, Get(resp.json, "SiteKey", "")),
                               <<req, StoreCall("set_tokens")>>)
             ELSE LoginOutcome("AuthenticationError", 0,
                               "Login successful but no token found", s, <<req>>)
        ELSE LoginOutcome("AuthenticationError", resp.status,
                          "Login failed with status code", s, <<req>>)

\* __login taking any 200 answer for a success, token or not.
LoginWithoutTokenCheck(s, user, pass, resp) ==
    IF ~Truthy(user) \/ ~Truthy(pass)
    THEN LoginOutcome("AuthenticationError", 0,
                      "Username and password are required", s, <<>>)
    ELSE LET req == Request("POST", "Accounts/UserLogin/", <<user, pass>>,
                            FixedHeaders, resp)
         IN  IF resp.status = StatusOK
             THEN LoginOutcome("return", 0, "", s, <<req>>)
             ELSE LoginOutcome("AuthenticationError", resp.status,
                               "Login failed with status code", s, <<req>>)

\* __login reading the token before it looks at the status code.
LoginIgnoringStatus(s, user, pass, resp) ==
    IF ~Truthy(user) \/ ~Truthy(pass)
    THEN LoginOutcome("AuthenticationError", 0,
                      "Username and password are required", s, <<>>)
    ELSE LET req == Request("POST", "Accounts/UserLogin/", <<user, pass>>,
                            FixedHeaders, resp)
             token == Get(resp.json, "Token", None)
         IN  IF Truthy(token)
             THEN LoginOutcome("return", 0, "",
                               SetTokens(s, token, Get(resp.json, "SiteKey", "")),
                               <<req, StoreCall("set_tokens")>>)
             ELSE IF resp.status = StatusOK
             THEN LoginOutcome("AuthenticationError", 0,
                               "Login successful but no token found", s, <<req>>)
             ELSE LoginOutcome("AuthenticationError", resp.status,
                               "Login failed with status code", s, <<req>>)

\* KolHalashonAPI.__login
Login(s, user, pass, resp) ==
    IF ~Truthy(user) \/ ~Truthy(pass)
    THEN LoginOutcome("AuthenticationError", 0,
                      "Username and password are required", s, <<>>)
    ELSE LET req == Request("POST", "Accounts/UserLogin/", <<user, pass>>,
                            FixedHeaders, resp)
             token == Get(resp.json, "Token", None)
         IN  IF resp.status = StatusOK
             THEN IF Truthy(token)
                  THEN LoginOutcome("return", 0, "",
                                    SetTokens(s, token, Get(resp.json, "SiteKey", "")),
                                    <<req, StoreCall("set_tokens")>>)
                  ELSE LoginOutcome("AuthenticationError", 0,
                                    "Login successful but no token found", s, <<req>>)
             ELSE LoginOutcome("AuthenticationError", resp.status,
                               "Login failed with status code", s, <<req>>)

\* _init_session logging in whatever load_session restored.
InitSessionAlwaysLogin(s, f, user, pass, resp) ==
    LET ld == LoadSession(s, f)
        lg == Login(ld.session, user, pass, resp)
    IN  [lg EXCEPT !.log = <<StoreCall("load_session")>> \o lg.log]

\* KolHalashonAPI._init_session
InitSession(s, f, user, pass, resp) ==
    LET ld == LoadSession(s, f)
        loaded == <<StoreCall("load_session")>>
        checked == loaded \o <<StoreCall("is_token_valid")>>
    IN  IF ~ld.raised /\ IsTokenValid(ld.session)
        THEN LoginOutcome("return", 0, "", ld.session, checked)
        ELSE LET lg == Login(ld.session, user, pass, resp)
             IN  [lg EXCEPT !.log = (IF ld.raised THEN loaded ELSE checked) \o lg.log]

\* username if username else os.getenv(..., '')
Resolve(arg, env) == IF Truthy(arg) THEN arg ELSE env

(***************************************************************************)
(* Construction                                                            *)
(***************************************************************************)

\* KolHalashonAPI.__init__
Construct(userArg, passArg, envUser, envPass, useSession, resp) ==
    LET user == Resolve(userArg, envUser)
        pass == Resolve(passArg, envPass)
        out  == IF useSession
                THEN InitSession(EmptySession, file, user, pass, resp)
                ELSE LoginOutcome("return", 0, "", EmptySession, <<>>)
    IN  /\ phase = "new"
        /\ username' = user
        /\ password' = pass
        /\ use_session' = useSession
        /\ session' = out.session
        /\ phase' = IF out.kind = "return" THEN "ready" ELSE "failed"
        /\ call' = [NoCall EXCEPT !.op = "__init__"]
        /\ log' = out.log
        /\ result' = Outcome("__init__", out.kind, out.status, out.msg)
        /\ UNCHANGED <<file, gen, mapIn, mapOut>>

(***************************************************************************)
(* Response mappers                                                        *)
(***************************************************************************)

\* The keys format_shiurim reads from a raw entry.
ShiurKeys ==
    {"FileId", "TitleHebrew", "UserNameHebrew", "ShiurDuration", "RecordDate",
     "MainTopicHebrew", "CatDesc1", "CatDesc2", "HasAudio", "HasVideo",
     "HasHdVideo", "DownloadCount", "IsWomenOnly", "ShiurType", "ViewdByUser"}

IntKeys == {"FileId", "DownloadCount"}
BoolKeys == {"HasAudio", "HasVideo", "HasHdVideo", "IsWomenOnly", "ViewdByUser"}

\* A value of the key's JSON type; the two variants differ for every key.
RawValue(key, variant) ==
    IF key \in IntKeys THEN (IF variant = 1 THEN 42 ELSE 0)
    ELSE IF key \in BoolKeys THEN (variant = 1)
    ELSE (IF variant = 1 THEN "x" ELSE "Unavailable")

\* The raw entry holding exactly the keys of S.
RawEntry(S, variant) == [k \in S |-> RawValue(k, variant)]

\* format_shiurim with the duration's default mistaken for the plain
\* strings' one.
FormatShiurEmptyDuration(shiur) ==
    [file_id            |-> Get(shiur, "FileId", 0),
     title              |-> Get(shiur, "TitleHebrew", ""),
     rav                |-> Get(shiur, "UserNameHebrew", ""),
     duration           |-> Get(shiur, "ShiurDuration", ""),
     record_date        |-> Get(shiur, "RecordDate", ""),
     main_topic         |-> Get(shiur, "MainTopicHebrew", ""),
     category_1         |-> Get(shiur, "CatDesc1", ""),
     category_2         |-> Get(shiur, "CatDesc2", ""),
     audio_available    |-> Get(shiur, "HasAudio", FALSE),
     video_available    |-> Get(shiur, "HasVideo", FALSE),
     hd_video_available |-> Get(shiur, "HasHdVideo", FALSE),
     download_count     |-> Get(shiur, "DownloadCount", 0),
     women_only         |-> Get(shiur, "IsWomenOnly", FALSE),
     shiur_type         |-> Get(shiur, "ShiurType", "Unavailable"),
     viewed_by_user     |-> Get(shiur, "ViewdByUser", FALSE)]

\* One record of format_shiurim: Shiur(file_id=shiur.get("FileId", 0), ...)
FormatShiur(shiur) ==
    [file_id            |-> Get(shiur, "FileId", 0),
     title              |-> Get(shiur, "TitleHebrew", ""),
     rav                |-> Get(shiur, "UserNameHebrew", ""),
     duration           |-> Get(shiur, "ShiurDuration", "Unavailable"),
     record_date        |-> Get(shiur, "RecordDate", ""),
     main_topic         |-> Get(shiur, "MainTopicHebrew", ""),
     category_1         |-> Get(shiur, "CatDesc1", ""),
     category_2         |-> Get(shiur, "CatDesc2", ""),
     audio_available    |-> Get(shiur, "HasAudio", FALSE),
     video_available    |-> Get(shiur, "HasVideo", FALSE),
     hd_video_available |-> Get(shiur, "HasHdVideo", FALSE),
     download_count     |-> Get(shiur, "DownloadCount", 0),
     women_only         |-> Get(shiur, "IsWomenOnly", FALSE),
     shiur_type         |-> Get(shiur, "ShiurType", "Unavailable"),
     viewed_by_user     |-> Get(shiur, "ViewdByUser", FALSE)]

\* KolHalashonAPI._parse_shiur_details
ParseShiurDetails(data) ==
    [file_id            |-> Get(data, "FileId", 0),
     title              |-> Get(data, "TitleHebrew", ""),
     rav                |-> Get(data, "UserNameHebrew", ""),
     duration           |-> Get(data, "ShiurDuration", "Unavailable"),
     record_date        |-> Get(data, "RecordDate", ""),
     main_topic         |-> Get(data, "MainTopicHebrew", ""),
     audio_available    |-> Get(data, "HasAudio", FALSE),
     video_available    |-> Get(data, "HasVideo", FALSE),
     hd_video_available |-> Get(data, "HasHdVideo", FALSE),
     categories         |-> <<Get(data, "CatDesc1", ""), Get(data, "CatDesc2", "")>>]

\* The raw entries the server's payloads are built from: a complete one,
\* an empty one and the one of the specification's scenario.
RawSamples ==
    {RawEntry(ShiurKeys, 1), RawEntry({}, 1), RawEntry({"FileId", "TitleHebrew"}, 1)}

\* The JSON arrays a search or listing response may carry.
Payloads == UNION {[1..n -> RawSamples] : n \in 0..MaxItems}

(***************************************************************************)
(* Facade operations                                                       *)
(***************************************************************************)

\* search_items asking a second time after a failure and returning
\* nothing when that fails too.
SearchItemsRetry(keyword, user_id, resp) ==
    LET req == Request("GET", "Search/WebSite_GetSearchItems",
                       <<keyword, user_id, 1, 4>>, FixedHeaders, resp)
    IN  /\ phase = "ready"
        /\ call' = [NoCall EXCEPT !.op = "search_items", !.keyword = keyword,
                                  !.id = user_id]
        /\ log' = IF resp.status = StatusOK THEN <<req>> ELSE <<req, req>>
        /\ result' = [Outcome("search_items", "return", 0, "")
                         EXCEPT !.items = resp.json]
        /\ UNCHANGED <<phase, use_session, username, password, session, file,
                       gen, mapIn, mapOut>>

\* KolHalashonAPI.search_items
SearchItems(keyword, user_id, resp) ==
    LET req == Request("GET", "Search/WebSite_GetSearchItems",
                       <<keyword, user_id, 1, 4>>, FixedHeaders, resp)
    IN  /\ phase = "ready"
        /\ call' = [NoCall EXCEPT !.op = "search_items", !.keyword = keyword,
                                  !.id = user_id]
        /\ log' = <<req>>
        /\ result' = IF resp.status = StatusOK
                     THEN [Outcome("search_items", "return", 0, "")
                               EXCEPT !.items = resp.json]
                     ELSE [Outcome("search_items", "SearchFailedException", resp.status,
                                   "Error fetching data for keyword")
                               EXCEPT !.keyword = keyword]
        /\ UNCHANGED <<phase, use_session, username, password, session, file,
                       gen, mapIn, mapOut>>

NoGen == [state |-> "none", rav |-> 0, rest |-> <<>>]

\* The JSON body search_rav_shiurim posts.
RavQuery(rav_id) ==
    [QueryType |-> -1, LangID |-> -1, MasechetID |-> -1, DafNo |-> -1,
     FromRow |-> 0, NumOfRows |-> 24, GeneralID |-> rav_id,
     FilterSwitch |-> <<"1", 90>>]

\* search_rav_shiurim as a plain function: the request is made, and its
\* failure raised, by the call.
SearchRavShiurimEager(rav_id) ==
    \E resp \in Responses(Payloads) :
        LET req == Request("POST", "Search/WebSite_GetRavShiurim/", RavQuery(rav_id),
                           session.headers, resp)
        IN  /\ phase = "ready"
            /\ call' = [NoCall EXCEPT !.op = "search_rav_shiurim", !.id = rav_id]
            /\ log' = <<req>>
            /\ IF resp.status = StatusOK
               THEN /\ gen' = [state |-> "suspended", rav |-> rav_id, rest |-> resp.json]
                    /\ result' = Outcome("search_rav_shiurim", "return", 0, "")
               ELSE /\ gen' = gen
                    /\ result' = [Outcome("search_rav_shiurim", "SearchFailedException",
                                          resp.status,
                                          "Error fetching Rav Shiurim for Rav ID")
                                      EXCEPT !.id = rav_id]
            /\ UNCHANGED <<phase, use_session, username, password, session, file,
                           mapIn, mapOut>>

\* KolHalashonAPI.search_rav_shiurim, the call: a generator function's
\* call runs none of its body and returns the generator object.
SearchRavShiurim(rav_id) ==
    /\ phase = "ready"
    /\ gen' = [state |-> "created", rav |-> rav_id, rest |-> <<>>]
    /\ call' = [NoCall EXCEPT !.op = "search_rav_shiurim", !.id = rav_id]
    /\ log' = <<>>
    /\ result' = Outcome("search_rav_shiurim", "return", 0, "")
    /\ UNCHANGED <<phase, use_session, username, password, session, file,
                   mapIn, mapOut>>

\* next() on the generator: the first one runs the body up to its first
\* yield (the request, then format_shiurim over the payload); the later
\* ones resume format_shiurim's loop.
GenNext(resp) ==
    LET first == gen.state = "created"
        req == Request("POST", "Search/WebSite_GetRavShiurim/", RavQuery(gen.rav),
                       session.headers, resp)
        failed == first /\ resp.status # StatusOK
        items == IF first THEN resp.json ELSE gen.rest
    IN  /\ phase = "ready"
        /\ gen.state # "none"
        /\ call' = [NoCall EXCEPT !.op = "next", !.id = gen.rav, !.first = first]
        /\ log' = IF first THEN <<req>> ELSE <<>>
        /\ IF failed
           THEN /\ gen' = [gen EXCEPT !.state = "closed", !.rest = <<>>]
                /\ result' = [Outcome("next", "SearchFailedException", resp.status,
                                      "Error fetching Rav Shiurim for Rav ID")
                                  EXCEPT !.id = gen.rav]
           ELSE IF gen.state = "closed" \/ items = <<>>
           THEN /\ gen' = [gen EXCEPT !.state = "closed", !.rest = <<>>]
                /\ result' = Outcome("next", "StopIteration", 0, "")
           ELSE /\ gen' = [gen EXCEPT !.state = "suspended", !.rest = Tail(items)]
                /\ result' = [Outcome("next", "yield", 0, "")
                                  EXCEPT !.items = <<FormatShiur(Head(items))>>]
        /\ UNCHANGED <<phase, use_session, username, password, session, file,
                       mapIn, mapOut>>

\* session_manager.get_download_key(file_id): one request to the remote
\* service, answered with a fresh key.
GetDownloadKey(s, file_id, key) ==
    [key |-> key,
     log |-> <<Request("GET", "DownloadKey", <<file_id>>, s.headers,
                        Response(StatusOK, <<key>>))>>]

\* 'mp3' if quality_level == QualityLevel.AUDIO else 'mp4'
FileExtension(quality_level) == IF quality_level = "AUDIO" THEN "mp3" ELSE "mp4"

\* 'audio' if AUDIO else 'video' if VIDEO else 'hd'
QualityName(quality_level) ==
    IF quality_level = "AUDIO" THEN "audio"
    ELSE IF quality_level = "VIDEO" THEN "video" ELSE "hd"

\* f"shiur_{file_id}_{quality_name}.{file_extension}"
FileName(file_id, quality_level) ==
    <<"shiur", file_id, QualityName(quality_level), FileExtension(quality_level)>>

\* download_file without the check of use_session.
DownloadFileWithoutSessionCheck(file_id, quality_level, key, status) ==
    LET dk == GetDownloadKey(session, file_id, key)
        req == Request("GET", "files/GetFileDownload",
                       <<file_id, quality_level, dk.key, "null", "false", "false">>,
                       session.headers, Response(status, <<>>))
        name == FileName(file_id, quality_level)
    IN  /\ phase = "ready"
        /\ call' = [NoCall EXCEPT !.op = "download_file", !.id = file_id,
                                  !.quality = quality_level]
        /\ IF status = StatusOK
           THEN /\ log' = dk.log \o <<req, WriteFile(name)>>
                /\ result' = [Outcome("download_file", "return", 0, "")
                                  EXCEPT !.file_name = name]
           ELSE /\ log' = dk.log \o <<req>>
                /\ result' = [Outcome("download_file", "DownloadFailedException",
                                      status, "Download failed")
                                  EXCEPT !.id = file_id, !.quality = quality_level]
        /\ UNCHANGED <<phase, use_session, username, password, session, file,
                       gen, mapIn, mapOut>>

\* KolHalashonAPI.download_file
DownloadFile(file_id, quality_level, key, status) ==
    LET dk == GetDownloadKey(session, file_id, key)
        req == Request("GET", "files/GetFileDownload",
                       <<file_id, quality_level, dk.key, "null", "false", "false">>,
                       session.headers, Response(status, <<>>))
        name == FileName(file_id, quality_level)
        c == [NoCall EXCEPT !.op = "download_file", !.id = file_id,
                            !.quality = quality_level]
    IN  /\ phase = "ready"
        /\ call' = c
        /\ IF ~use_session
           THEN /\ log' = <<>>
                /\ result' = Outcome("download_file", "SessionDisabledException", 0, "")
           ELSE IF status = StatusOK
           THEN /\ log' = dk.log \o <<req, WriteFile(name)>>
                /\ result' = [Outcome("download_file", "return", 0, "")
                                  EXCEPT !.file_name = name]
           ELSE /\ log' = dk.log \o <<req>>
                /\ result' = [Outcome("download_file", "DownloadFailedException",
                                      status, "Download failed")
                                  EXCEPT !.id = file_id, !.quality = quality_level]
        /\ UNCHANGED <<phase, use_session, username, password, session, file,
                       gen, mapIn, mapOut>>

\* KolHalashonAPI.get_shiur_details
GetShiurDetails(file_id, resp) ==
    LET req == Request("GET", "TblShiurimLists/WebSite_GetShiurDetails",
                       <<file_id>>, session.headers, resp)
    IN  /\ phase = "ready"
        /\ call' = [NoCall EXCEPT !.op = "get_shiur_details", !.id = file_id]
        /\ log' = <<req>>
        /\ result' = IF resp.status = StatusOK
                     THEN [Outcome("get_shiur_details", "return", 0, "")
                               EXCEPT !.items = <<ParseShiurDetails(resp.json)>>]
                     ELSE [Outcome("get_shiur_details", "ShiurDetailsNotFoundException",
                                   0, "")
                               EXCEPT !.id = file_id]
        /\ UNCHANGED <<phase, use_session, username, password, session, file,
                       gen, mapIn, mapOut>>

(***************************************************************************)
(* Persistence and process lifetime                                        *)
(***************************************************************************)

\* The store's persist(): the current SessionData is written to the file.
Persist ==
    /\ phase = "ready"
    /\ file' = [state |-> "ok", data |-> session]
    /\ call' = [NoCall EXCEPT !.op = "persist"]
    /\ log' = <<>>
    /\ result' = Outcome("persist", "return", 0, "")
    /\ UNCHANGED <<phase, use_session, username, password, session, gen,
                   mapIn, mapOut>>

\* The process ends: the facade, its store and its generators are gone;
\* the session file stays.
Restart ==
    /\ phase \in {"ready", "failed"}
    /\ phase' = "new"
    /\ use_session' = FALSE
    /\ username' = ""
    /\ password' = ""
    /\ session' = EmptySession
    /\ gen' = NoGen
    /\ call' = NoCall
    /\ log' = <<>>
    /\ result' = Outcome("none", "none", 0, "")
    /\ UNCHANGED <<file, mapIn, mapOut>>

(***************************************************************************)
(* Specification                                                           *)
(***************************************************************************)

Init ==
    /\ phase = "new"
    /\ use_session = FALSE
    /\ username = ""
    /\ password = ""
    /\ session = EmptySession
    /\ file \in {NoFile, CorruptFile}
    /\ gen = NoGen
    /\ call = NoCall
    /\ log = <<>>
    /\ result = Outcome("none", "none", 0, "")
    /\ mapIn = <<>>
    /\ mapOut = <<>>

Next ==
    \/ \E ua \in UserArgs, pa \in PassArgs, eu \in EnvUsers, ep \in EnvPasss,
          us \in BOOLEAN, resp \in LoginResponses :
          Construct(ua, pa, eu, ep, us, resp)
    \/ \E kw \in Keywords, uid \in UserIds, resp \in Responses(Payloads) :
          SearchItems(kw, uid, resp)
    \/ \E rav \in RavIds : SearchRavShiurim(rav)
    \/ \E resp \in (IF gen.state = "created" THEN Responses(Payloads)
                     ELSE {Response(0, <<>>)}) : GenNext(resp)
    \/ \E f \in FileIds, q \in QualityLevels, k \in DownloadKeys, st \in Statuses :
          DownloadFile(f, q, k, st)
    \/ \E f \in FileIds, resp \in Responses(RawSamples) : GetShiurDetails(f, resp)
    \/ Persist
    \/ Restart

Spec == Init /\ [][Next]_vars

(***************************************************************************)
(* The search-item mapper on its own: format_shiurim applied to a list of  *)
(* one raw entry, for every subset of the mapped keys.                     *)
(***************************************************************************)

\* format_shiurim([mapIn]) consumed: its one record is yielded.
FormatShiurim ==
    /\ mapOut = <<>>
    /\ mapOut' = <<FormatShiur(mapIn)>>
    /\ UNCHANGED <<phase, use_session, username, password, session, file, gen,
                   call, log, result, mapIn>>

InitMap ==
    /\ phase = "new"
    /\ use_session = FALSE
    /\ username = ""
    /\ password = ""
    /\ session = EmptySession
    /\ file = NoFile
    /\ gen = NoGen
    /\ call = NoCall
    /\ log = <<>>
    /\ result = Outcome("none", "none", 0, "")
    /\ mapIn \in {RawEntry(S, v) : S \in SUBSET ShiurKeys, v \in {1, 2}}
    /\ mapOut = <<>>

NextMap == FormatShiurim

SpecMap == InitMap /\ [][NextMap]_vars

(***************************************************************************)
(* Properties                                                              *)
(***************************************************************************)

\* The raw key each field of a search item is read from.
KeyOf(field) ==
    CASE field = "file_id" -> "FileId"
      [] field = "title" -> "TitleHebrew"
      [] field = "rav" -> "UserNameHebrew"
      [] field = "duration" -> "ShiurDuration"
      [] field = "record_date" -> "RecordDate"
      [] field = "main_topic" -> "MainTopicHebrew"
      [] field = "category_1" -> "CatDesc1"
      [] field = "category_2" -> "CatDesc2"
      [] field = "audio_available" -> "HasAudio"
      [] field = "video_available" -> "HasVideo"
      [] field = "hd_video_available" -> "HasHdVideo"
      [] field = "download_count" -> "DownloadCount"
      [] field = "women_only" -> "IsWomenOnly"
      [] field = "shiur_type" -> "ShiurType"
      [] field = "viewed_by_user" -> "ViewdByUser"

ShiurFields ==
    {"file_id", "title", "rav", "duration", "record_date", "main_topic",
     "category_1", "category_2", "audio_available", "video_available",
     "hd_video_available", "download_count", "women_only", "shiur_type",
     "viewed_by_user"}

\* The documented default of each field.
DocumentedDefault(field) ==
    IF field \in {"file_id", "download_count"} THEN 0
    ELSE IF field \in {"duration", "shiur_type"} THEN "Unavailable"
    ELSE IF field \in {"audio_available", "video_available", "hd_video_available",
                       "women_only", "viewed_by_user"} THEN FALSE
    ELSE ""

\* C10: for a raw entry missing any subset of the mapped keys, the record
\* format_shiurim yields has every field: a present key's value copied, a
\* missing key's field at its documented default.
C10_MapperFillsDefaults ==
    mapOut # <<>> =>
        /\ Len(mapOut) = 1
        /\ DOMAIN mapOut[1] = ShiurFields
        /\ \A f \in ShiurFields :
              mapOut[1][f] = IF KeyOf(f) \in DOMAIN mapIn
                             THEN mapIn[KeyOf(f)]
                             ELSE DocumentedDefault(f)

\* The specification's scenario: only FileId and TitleHebrew are present.
C10_Witness ==
    /\ mapOut # <<>>
    /\ DOMAIN mapIn = {"FileId", "TitleHebrew"}
    /\ mapOut[1].file_id = 42
    /\ mapOut[1].duration = "Unavailable"
    /\ mapOut[1].audio_available = FALSE
    /\ mapOut[1].download_count = 0

(***************************************************************************)
(* Properties of the facade.  While result.op names an operation, call,    *)
(* log and result are those of that operation, and use_session and the     *)
(* session file are as the operation left them.                            *)
(***************************************************************************)

LoginEndpoint == "Accounts/UserLogin/"

IsLoginRequest(e) == IsRequest(e) /\ e.endpoint = LoginEndpoint
IsSetTokens(e) == e.ev = "set_tokens"
IsWriteFile(e) == e.ev = "write_file"

LoginRequests == SelectSeq(log, IsLoginRequest)

\* The session file holds a session whose token is present and not empty.
FileValid == file.state = "ok" /\ Truthy(file.data.auth_token)

\* The store as load_session left it, before any login.
SessionBeforeLogin == IF file.state = "ok" THEN file.data ELSE EmptySession

\* The last operation was a session-backed construction.
SessionBackedInit == result.op = "__init__" /\ use_session

\* C1: with use_session false, download_file fails with
\* SessionDisabledException, for any file id and quality level, having
\* issued no request (download key or file) and written no file.
C1_DisabledDownloadFails ==
    (result.op = "download_file" /\ ~use_session) =>
        /\ result.kind = "SessionDisabledException"
        /\ log = <<>>

C1_Witness ==
    /\ result.op = "download_file"
    /\ ~use_session
    /\ call.quality = "HD"
    /\ result.kind = "SessionDisabledException"

\* C2: a session-backed construction calls load_session first; it issues
\* a login request only if the load failed or the loaded token is not
\* valid, and with a valid loaded session it completes without any.
C2_LoginOnlyWithoutValidSession ==
    SessionBackedInit =>
        /\ log # <<>> /\ log[1].ev = "load_session"
        /\ \A i \in DOMAIN log : IsLoginRequest(log[i]) => i > 1 /\ ~FileValid
        /\ result.kind = "AuthenticationError" => ~FileValid
        /\ FileValid =>
              /\ LoginRequests = <<>>
              /\ result.kind = "return"
              /\ phase = "ready"
              /\ session = file.data

C2_Witness ==
    /\ SessionBackedInit
    /\ FileValid
    /\ phase = "ready"
    /\ LoginRequests = <<>>

\* C3: download_file returns a file name only on a session-backed facade
\* whose store holds a present, non-empty token.
C3_DownloadOnlyAuthenticated ==
    (result.op = "download_file" /\ result.kind = "return") =>
        /\ use_session
        /\ Truthy(session.auth_token)

C3_Witness ==
    /\ result.op = "download_file"
    /\ result.kind = "return"
    /\ result.file_name = <<"shiur", 7, "video", "mp4">>
    /\ Truthy(session.auth_token)

\* C4: a login with an empty username or an empty password fails with
\* AuthenticationError, issues no request and leaves the store's tokens
\* as they were.
C4_EmptyCredentialsNoRequest ==
    (SessionBackedInit /\ ~FileValid /\ (~Truthy(username) \/ ~Truthy(password))) =>
        /\ result.kind = "AuthenticationError"
        /\ phase = "failed"
        /\ Requests(log) = <<>>
        /\ session = SessionBeforeLogin

C4_Witness ==
    /\ SessionBackedInit
    /\ ~FileValid
    /\ Truthy(username)
    /\ password = ""
    /\ result.kind = "AuthenticationError"

\* C5: a login that issued its request calls set_tokens, with the body's
\* Token and SiteKey, exactly when the answer has status 200 and a
\* non-empty Token; otherwise it fails with AuthenticationError, with the
\* status code when that is not 200, and the store is unchanged.
C5_TokensSetIffTokenReturned ==
    (SessionBackedInit /\ LoginRequests # <<>>) =>
        LET req == LoginRequests[1]
            token == Get(req.json, "Token", None)
            granted == req.status = StatusOK /\ Truthy(token)
        IN  /\ Len(LoginRequests) = 1
            /\ (\E i \in DOMAIN log : IsSetTokens(log[i])) <=> granted
            /\ granted =>
                  /\ result.kind = "return"
                  /\ session.auth_token = token
                  /\ "SiteKey" \in DOMAIN req.json => session.site_key = req.json.SiteKey
            /\ ~granted =>
                  /\ result.kind = "AuthenticationError"
                  /\ req.status # StatusOK => result.status = req.status
                  /\ session = SessionBeforeLogin

C5_Witness ==
    /\ SessionBackedInit
    /\ LoginRequests # <<>>
    /\ \E i \in DOMAIN log : IsSetTokens(log[i])
    /\ session.auth_token = "tok"
    /\ session.site_key = "sk"

\* C6: in every reachable state the store's auth_token and site_key are
\* both absent or both present.
C6_TokenAndSiteKeyTogether ==
    (session.auth_token = None) <=> (session.site_key = None)

\* The facade's own requests; the download-key request is the store's.
FacadeEndpoints ==
    {LoginEndpoint, "Search/WebSite_GetSearchItems", "Search/WebSite_GetRavShiurim/",
     "TblShiurimLists/WebSite_GetShiurDetails", "files/GetFileDownload"}

HasFixedHeaders(h) ==
    /\ {"origin", "referer"} \subseteq DOMAIN h
    /\ h["origin"] = FixedHeaders.origin
    /\ h["referer"] = FixedHeaders.referer

\* C7: every request of the facade carries origin and referer and, when
\* the store holds a token, an authorization header built from it.  (A
\* login request is issued only while the store holds no valid token.)
C7_EveryRequestAuthorized ==
    \A i \in DOMAIN log :
        (IsRequest(log[i]) /\ log[i].endpoint \in FacadeEndpoints) =>
            /\ HasFixedHeaders(log[i].headers)
            /\ (log[i].endpoint # LoginEndpoint /\ Truthy(session.auth_token)) =>
                  /\ "authorization" \in DOMAIN log[i].headers
                  /\ log[i].headers["authorization"] = Bearer(session.auth_token)

\* C8: the call of search_rav_shiurim returns its sequence without a
\* request and without an error; the request is issued by the first
\* next(), which raises SearchFailedException (rav id, status code) on a
\* status other than 200; no later next() issues a request or raises it.
C8_ListingFailsLazily ==
    /\ result.op = "search_rav_shiurim" =>
          /\ result.kind = "return"
          /\ log = <<>>
          /\ gen.state = "created"
    /\ (result.op = "next" /\ call.first) =>
          /\ Len(log) = 1 /\ IsRequest(log[1])
          /\ log[1].status # StatusOK <=> result.kind = "SearchFailedException"
          /\ result.kind = "SearchFailedException" =>
                result.id = call.id /\ result.status = log[1].status
    /\ (result.op = "next" /\ ~call.first) =>
          /\ log = <<>>
          /\ result.kind \in {"yield", "StopIteration"}

C8_Witness ==
    /\ result.op = "next"
    /\ call.first
    /\ result.kind = "SearchFailedException"
    /\ result.status = 500
    /\ result.id = 5

\* The endpoint an operation's one request goes to.
EndpointOf(op) ==
    CASE op = "search_items" -> "Search/WebSite_GetSearchItems"
      [] op = "next" -> "Search/WebSite_GetRavShiurim/"
      [] op = "get_shiur_details" -> "TblShiurimLists/WebSite_GetShiurDetails"
      [] op = "download_file" -> "files/GetFileDownload"

\* The typed error of an operation, with what it carries.
TypedError(op, status) ==
    CASE op = "search_items" ->
            /\ result.kind = "SearchFailedException"
            /\ result.keyword = call.keyword
            /\ result.status = status
      [] op = "next" ->
            /\ result.kind = "SearchFailedException"
            /\ result.id = call.id
            /\ result.status = status
      [] op = "get_shiur_details" ->
            /\ result.kind = "ShiurDetailsNotFoundException"
            /\ result.id = call.id
      [] op = "download_file" ->
            /\ result.kind = "DownloadFailedException"
            /\ result.status = status
            /\ result.id = call.id
            /\ result.quality = call.quality

\* C9: each of search_items, search_rav_shiurim (its iteration),
\* get_shiur_details and download_file sends at most one request to its
\* endpoint, and after a status other than 200 ends with its typed error,
\* never a normal value.
C9_NoRetryNoSuppression ==
    result.op \in {"search_items", "next", "get_shiur_details", "download_file"} =>
        LET IsOwn(e) == IsRequest(e) /\ e.endpoint = EndpointOf(result.op)
            own == SelectSeq(log, IsOwn)
        IN  /\ Len(own) <= 1
            /\ (own # <<>> /\ own[1].status # StatusOK) =>
                  /\ TypedError(result.op, own[1].status)
                  /\ result.kind \notin {"return", "yield"}
                  /\ \A i \in DOMAIN log : ~IsWriteFile(log[i])

C9_Witness ==
    /\ result.op = "download_file"
    /\ result.kind = "DownloadFailedException"
    /\ result.status = 500
    /\ result.quality = "AUDIO"
    /\ Len(Requests(log)) = 2

====
